---- MODULE Spec2Model ----
(***************************************************************************)
(* Model of src/window_open_options.rs: the WindowOpenOptions builder and  *)
(* the MacOSWindowOptions style-flag bit-set.                              *)
(*                                                                         *)
(* A u64 is modelled as the set of its set bit positions, a subset of      *)
(* 0..Width-1 (TLC's integers are 32 bits wide, a u64 does not fit in one).*)
(* |, & and ! are then union, intersection and complement, and 1 << k is   *)
(* the shift of the bit-set {0}.                                           *)
(***************************************************************************)
EXTENDS Integers, Sequences, FiniteSets, TLC

VARIABLES
    flags,      \* a MacOSWindowOptions value under construction (its `value`)
    start,      \* the value `flags` had before the first logged call
    calls,      \* log of the method calls made on `flags`, oldest first
    vals,       \* vals[i] = `flags` before calls[i]; vals[Len(calls)+1] = flags
    opts,       \* a WindowOpenOptions under construction
    lastOp,     \* name of the most recent builder call on `opts` ("none" at start)
    recent,     \* per builder method, <<>> or <<argument of its most recent call>>
    macCalled,  \* whether with_mac_os_options has been called on `opts`
    opts0,      \* the WindowOpenOptions before the call under test
    fArg        \* the closure handed to with_mac_os_options in the call under test

vars == <<flags, start, calls, vals, opts, lastOp, recent, macCalled, opts0, fArg>>
flagVars == <<flags, start, calls, vals>>
optVars == <<opts, lastOp, recent, macCalled>>
inputVars == <<opts0, fArg>>

----------------------------------------------------------------------------
(* Bounds of the model *)

\* longest logged chain of method calls on `flags`
MaxCalls == 3
\* longest method chain inside a closure passed to with_mac_os_options
\* by the builder runs
MaxChain == 1
\* longest method chain inside the closure of the single call under test
MaxArgChain == 2

----------------------------------------------------------------------------
(* u64 arithmetic on bit-sets *)

\* width of MacOSWindowOptions.value (u64)
Width == 64

AllBits == 0 .. (Width - 1)

\* the integer literals 0 and 1 as u64
Zero == {}
One == {0}

\* a << k on u64: bits shifted beyond the width are lost
Shl(a, k) == {i + k : i \in a} \cap AllBits

BitOr(a, b) == a \cup b
BitAnd(a, b) == a \cap b
BitNot(a) == AllBits \ a

----------------------------------------------------------------------------
(* MacOSWindowOptions *)

\* mutants of borderless: clears only the default flags; resets to the default
borderless_ClearsDefaults(self) == BitAnd(self, BitNot({0, 1, 2}))
borderless_ResetsToDefault(self) == {0, 1, 2}

borderless(self) == Zero

\* mutant of closable: the else branch leaves the bit alone
closable_NeverClears(self, value) ==
    IF value THEN BitOr(self, Shl(One, 0)) ELSE self

closable(self, value) ==
    IF value THEN BitOr(self, Shl(One, 0)) ELSE BitAnd(self, BitNot(Shl(One, 0)))

titled(self, value) ==
    IF value THEN BitOr(self, Shl(One, 1)) ELSE BitAnd(self, BitNot(Shl(One, 1)))

miniaturizable(self, value) ==
    IF value THEN BitOr(self, Shl(One, 2)) ELSE BitAnd(self, BitNot(Shl(One, 2)))

resizable(self, value) ==
    IF value THEN BitOr(self, Shl(One, 3)) ELSE BitAnd(self, BitNot(Shl(One, 3)))

\* mutant of textured: the bit of resizable
textured_Bit3(self, value) ==
    IF value THEN BitOr(self, Shl(One, 3)) ELSE BitAnd(self, BitNot(Shl(One, 3)))

textured(self, value) ==
    IF value THEN BitOr(self, Shl(One, 8)) ELSE BitAnd(self, BitNot(Shl(One, 8)))

\* mutant of unified_titlebar: a reserved bit
unified_titlebar_Bit11(self, value) ==
    IF value THEN BitOr(self, Shl(One, 11)) ELSE BitAnd(self, BitNot(Shl(One, 11)))

unified_titlebar(self, value) ==
    IF value THEN BitOr(self, Shl(One, 12)) ELSE BitAnd(self, BitNot(Shl(One, 12)))

full_screen(self, value) ==
    IF value THEN BitOr(self, Shl(One, 14)) ELSE BitAnd(self, BitNot(Shl(One, 14)))

\* mutant of full_size: the mask of the else branch is not inverted
full_size_MaskNotInverted(self, value) ==
    IF value THEN BitOr(self, Shl(One, 15)) ELSE BitAnd(self, Shl(One, 15))

full_size(self, value) ==
    IF value THEN BitOr(self, Shl(One, 15)) ELSE BitAnd(self, BitNot(Shl(One, 15)))

\* mutant of the default: the derived default of a u64, no toggle applied
MacOSWindowOptionsDefault_Derived == Zero

\* impl Default for MacOSWindowOptions
MacOSWindowOptionsDefault == miniaturizable(closable(titled(Zero, TRUE), TRUE), TRUE)

raw_value(self) == self

\* A method call is <<"borderless">> or <<name, value>>.
ToggleNames == {"closable", "titled", "miniaturizable", "resizable", "textured",
                "unified_titlebar", "full_screen", "full_size"}
MethodCalls == {<<"borderless">>} \cup (ToggleNames \X BOOLEAN)

\* one method call of a chain `self.m(value)`
ApplyCall(c, self) ==
    CASE c[1] = "borderless"       -> borderless(self)
      [] c[1] = "closable"         -> closable(self, c[2])
      [] c[1] = "titled"           -> titled(self, c[2])
      [] c[1] = "miniaturizable"   -> miniaturizable(self, c[2])
      [] c[1] = "resizable"        -> resizable(self, c[2])
      [] c[1] = "textured"         -> textured(self, c[2])
      [] c[1] = "unified_titlebar" -> unified_titlebar(self, c[2])
      [] c[1] = "full_screen"      -> full_screen(self, c[2])
      [] c[1] = "full_size"        -> full_size(self, c[2])

\* a method chain self.c1(..).c2(..)..., the calls applied left to right
RECURSIVE ApplyChain(_, _)
ApplyChain(chain, self) ==
    IF chain = <<>> THEN self
    ELSE ApplyChain(Tail(chain), ApplyCall(Head(chain), self))

----------------------------------------------------------------------------
(* Calls on a MacOSWindowOptions value, logged *)

CanCall == Len(calls) < MaxCalls

Logged(c) ==
    /\ calls' = Append(calls, c)
    /\ vals' = Append(vals, flags')
    /\ UNCHANGED <<start, optVars, inputVars>>

Borderless ==
    /\ CanCall
    /\ flags' = borderless(flags)
    /\ Logged(<<"borderless">>)

Closable(v) ==
    /\ CanCall
    /\ flags' = closable(flags, v)
    /\ Logged(<<"closable", v>>)

Titled(v) ==
    /\ CanCall
    /\ flags' = titled(flags, v)
    /\ Logged(<<"titled", v>>)

Miniaturizable(v) ==
    /\ CanCall
    /\ flags' = miniaturizable(flags, v)
    /\ Logged(<<"miniaturizable", v>>)

Resizable(v) ==
    /\ CanCall
    /\ flags' = resizable(flags, v)
    /\ Logged(<<"resizable", v>>)

Textured(v) ==
    /\ CanCall
    /\ flags' = textured(flags, v)
    /\ Logged(<<"textured", v>>)

UnifiedTitlebar(v) ==
    /\ CanCall
    /\ flags' = unified_titlebar(flags, v)
    /\ Logged(<<"unified_titlebar", v>>)

FullScreen(v) ==
    /\ CanCall
    /\ flags' = full_screen(flags, v)
    /\ Logged(<<"full_screen", v>>)

FullSize(v) ==
    /\ CanCall
    /\ flags' = full_size(flags, v)
    /\ Logged(<<"full_size", v>>)

----------------------------------------------------------------------------
(* WindowScalePolicy, Size, Option and Display values *)

SystemScaleFactor == <<"SystemScaleFactor">>
ScaleFactor(x) == <<"ScaleFactor", x>>

\* crate::Size::new(width, height); the f64 arguments used are whole numbers
SizeNew(w, h) == [width |-> w, height |-> h]

\* Option<T>: None is the empty sequence, Some(v) the sequence <<v>>
None == <<>>
Some(v) == <<v>>

\* mutant of unwrap_or_default: the default of the u64 inside
unwrap_or_zero(o) == IF o = None THEN Zero ELSE o[1]

\* Option<MacOSWindowOptions>::unwrap_or_default
unwrap_or_default(o) == IF o = None THEN MacOSWindowOptionsDefault ELSE o[1]

\* A Display value is <<"str", s>> (a &str, displayed as itself) or
\* <<"uint", n>> (an unsigned integer, displayed in decimal).
Digit(d) == <<"0", "1", "2", "3", "4", "5", "6", "7", "8", "9">>[d + 1]

RECURSIVE Decimal(_)
Decimal(n) == IF n < 10 THEN Digit(n) ELSE Decimal(n \div 10) \o Digit(n % 10)

to_string(d) == IF d[1] = "str" THEN d[2] ELSE Decimal(d[2])

----------------------------------------------------------------------------
(* WindowOpenOptions (built without the "opengl" feature: no gl_config) *)

\* mutant of the default: the platform options populated eagerly
WindowOpenOptionsDefault_Eager ==
    [title          |-> "Baseview window",
     size           |-> SizeNew(800, 600),
     scale          |-> SystemScaleFactor,
     mac_os_options |-> Some(MacOSWindowOptionsDefault)]

\* impl Default for WindowOpenOptions
WindowOpenOptionsDefault ==
    [title          |-> "Baseview window",
     size           |-> SizeNew(800, 600),
     scale          |-> SystemScaleFactor,
     mac_os_options |-> None]

with_title(self, title) == [self EXCEPT !.title = to_string(title)]

\* mutant of with_size: rebuilt from the default with only the size given
with_size_FromDefault(self, size) ==
    [title          |-> "Baseview window",
     size           |-> size,
     scale          |-> SystemScaleFactor,
     mac_os_options |-> None]

with_size(self, size) == [self EXCEPT !.size = size]

with_scale_policy(self, policy) == [self EXCEPT !.scale = policy]

\* f is a closure whose body is a method chain on its argument
with_mac_os_options(self, f) ==
    [self EXCEPT !.mac_os_options =
        Some(ApplyChain(f, unwrap_or_default(self.mac_os_options)))]

\* cfg(target_os = "macos"): the NSWindowStyleMask bits before truncation
style_mask(self) == raw_value(unwrap_or_default(self.mac_os_options))

----------------------------------------------------------------------------
(* Arguments the callers pass *)

TitleArgs == {<<"str", "Test">>, <<"uint", 42>>}
SizeArgs == {SizeNew(400, 300), SizeNew(0, 0)}
PolicyArgs == {SystemScaleFactor, ScaleFactor(2)}

\* method chains of length 0 .. n
Chains(n) == UNION {[1 .. k -> MethodCalls] : k \in 0 .. n}

Transforms == Chains(MaxChain)
ArgTransforms == Chains(MaxArgChain)

----------------------------------------------------------------------------
(* Builder calls on a WindowOpenOptions *)

WithTitle(d) ==
    /\ opts' = with_title(opts, d)
    /\ lastOp' = "with_title"
    /\ recent' = [recent EXCEPT !.with_title = <<d>>]
    /\ UNCHANGED <<macCalled, flagVars, inputVars>>

WithSize(s) ==
    /\ opts' = with_size(opts, s)
    /\ lastOp' = "with_size"
    /\ recent' = [recent EXCEPT !.with_size = <<s>>]
    /\ UNCHANGED <<macCalled, flagVars, inputVars>>

WithScalePolicy(p) ==
    /\ opts' = with_scale_policy(opts, p)
    /\ lastOp' = "with_scale_policy"
    /\ recent' = [recent EXCEPT !.with_scale_policy = <<p>>]
    /\ UNCHANGED <<macCalled, flagVars, inputVars>>

WithMacOsOptions(f) ==
    /\ opts' = with_mac_os_options(opts, f)
    /\ lastOp' = "with_mac_os_options"
    /\ macCalled' = TRUE
    /\ UNCHANGED <<recent, flagVars, inputVars>>

----------------------------------------------------------------------------
(* Specifications *)

NoCalls == [with_title |-> <<>>, with_size |-> <<>>, with_scale_policy |-> <<>>]

InitFlagsAt(s) ==
    /\ start = s
    /\ flags = s
    /\ calls = <<>>
    /\ vals = <<s>>

InitOptsAt(o) ==
    /\ opts = o
    /\ opts0 = o
    /\ lastOp = "none"
    /\ recent = NoCalls
    /\ macCalled = FALSE

\* bit-sets a caller may hold, named and reserved bits set or clear
StartValues ==
    {Zero, AllBits, MacOSWindowOptionsDefault,
     {i \in AllBits : i % 2 = 0}, {i \in AllBits : i % 2 = 1}}

NextFlags ==
    \/ Borderless
    \/ \E v \in BOOLEAN : Closable(v)
    \/ \E v \in BOOLEAN : Titled(v)
    \/ \E v \in BOOLEAN : Miniaturizable(v)
    \/ \E v \in BOOLEAN : Resizable(v)
    \/ \E v \in BOOLEAN : Textured(v)
    \/ \E v \in BOOLEAN : UnifiedTitlebar(v)
    \/ \E v \in BOOLEAN : FullScreen(v)
    \/ \E v \in BOOLEAN : FullSize(v)

\* Spec: method chains on MacOSWindowOptions::default()
Init ==
    /\ InitFlagsAt(MacOSWindowOptionsDefault)
    /\ InitOptsAt(WindowOpenOptionsDefault)
    /\ fArg = <<>>

Next == NextFlags

Spec == Init /\ [][Next]_vars

\* SpecAny: method chains on an arbitrary MacOSWindowOptions value
InitAny ==
    /\ \E s \in StartValues : InitFlagsAt(s)
    /\ InitOptsAt(WindowOpenOptionsDefault)
    /\ fArg = <<>>

SpecAny == InitAny /\ [][NextFlags]_vars

\* SpecOpts: builder chains on WindowOpenOptions::default()
NextOpts ==
    \/ \E d \in TitleArgs : WithTitle(d)
    \/ \E s \in SizeArgs : WithSize(s)
    \/ \E p \in PolicyArgs : WithScalePolicy(p)
    \/ \E f \in Transforms : WithMacOsOptions(f)

SpecOpts == Init /\ [][NextOpts]_vars

\* SpecMac: one with_mac_os_options(fArg) call on a WindowOpenOptions whose
\* platform options are absent or hold a value an earlier call stored
PriorOptions ==
    {None} \cup {Some(ApplyChain(c, MacOSWindowOptionsDefault)) : c \in Transforms}

InitMac ==
    /\ InitFlagsAt(MacOSWindowOptionsDefault)
    /\ \E p \in PriorOptions :
          InitOptsAt([WindowOpenOptionsDefault EXCEPT !.mac_os_options = p])
    /\ fArg \in ArgTransforms

NextMac ==
    /\ lastOp = "none"
    /\ WithMacOsOptions(fArg)

SpecMac == InitMac /\ [][NextMac]_vars

----------------------------------------------------------------------------
(* Vocabulary of the properties: the bit table of the specification (4.2),  *)
(* stated here independently of the methods above.                          *)

BitPosition ==
    [closable |-> 0, titled |-> 1, miniaturizable |-> 2, resizable |-> 3,
     textured |-> 8, unified_titlebar |-> 12, full_screen |-> 14, full_size |-> 15]

NamedBits == {BitPosition[t] : t \in ToggleNames}

\* the bit-set s with bit k made equal to v and every other bit as in s
WithBit(s, k, v) == {i \in AllBits : IF i = k THEN v ELSE i \in s}

IsToggle(c) == c[1] \in ToggleNames

\* positions in the log
Calls == 1 .. Len(calls)
Pairs == 1 .. (Len(calls) - 1)

----------------------------------------------------------------------------
(* C1: MacOSWindowOptions::default() yields a bit-set in which exactly bits *)
(* 0, 1 and 2 are set and every other one of the 64 bits is clear.          *)
(* Checked under Spec, whose initial value is MacOSWindowOptions::default().*)
C1_DefaultBits ==
    calls = <<>> =>
        /\ flags \subseteq 0 .. 63
        /\ \A i \in 0 .. 63 : (i \in flags) <=> (i \in {0, 1, 2})

C1_Witness == calls = <<>> /\ 0 \in flags /\ 2 \in flags /\ 63 \notin flags

----------------------------------------------------------------------------
(* C2 as stated: for every toggle t, boolean b and starting bit-set s,      *)
(* t(b) followed by t(not b) restores s.                                    *)
C2_Involution ==
    \A i \in Pairs :
        (/\ IsToggle(calls[i])
         /\ calls[i + 1] = <<calls[i][1], ~calls[i][2]>>)
        => vals[i + 2] = vals[i]

(* C2 amended: t(b) followed by t(not b) on s yields s with t's bit equal   *)
(* to not b and every other bit unchanged; it restores s exactly when t's   *)
(* bit in s already equals not b.                                           *)
C2_SecondCallWins ==
    \A i \in Pairs :
        (/\ IsToggle(calls[i])
         /\ calls[i + 1] = <<calls[i][1], ~calls[i][2]>>)
        => LET k == BitPosition[calls[i][1]]
               b == calls[i][2]
           IN  /\ vals[i + 2] = WithBit(vals[i], k, ~b)
               /\ (vals[i + 2] = vals[i]) <=> ((k \in vals[i]) <=> ~b)

C2_Witness ==
    \E i \in Pairs :
        /\ IsToggle(calls[i])
        /\ calls[i + 1] = <<calls[i][1], ~calls[i][2]>>
        /\ vals[i + 1] # vals[i]
        /\ vals[i + 2] = vals[i]
        /\ 63 \in vals[i]

----------------------------------------------------------------------------
(* C3: borderless() applied to any bit-set yields the bit-set 0, and is     *)
(* idempotent: a second borderless() right after it changes nothing.        *)
C3_BorderlessZero ==
    /\ \A i \in Calls :
          calls[i] = <<"borderless">> => vals[i + 1] = {}
    /\ \A i \in Pairs :
          (calls[i] = <<"borderless">> /\ calls[i + 1] = <<"borderless">>)
          => vals[i + 2] = vals[i + 1]

C3_Witness ==
    \E i \in Pairs :
        /\ calls[i] = <<"borderless">>
        /\ calls[i + 1] = <<"borderless">>
        /\ Cardinality(vals[i]) > 3
        /\ flags = {}

----------------------------------------------------------------------------
(* C4: calls to pairwise distinct toggles, with any arguments, applied to   *)
(* any starting bit-set in any order yield the same final bit-set.          *)
DistinctToggles ==
    /\ \A i \in Calls : IsToggle(calls[i])
    /\ \A i, j \in Calls : i # j => calls[i][1] # calls[j][1]

C4_Commute ==
    DistinctToggles =>
        \A p \in Permutations(Calls) :
            ApplyChain([i \in Calls |-> calls[p[i]]], start) = flags

C4_Witness ==
    /\ DistinctToggles
    /\ Len(calls) >= 2
    /\ calls[1] = <<"resizable", TRUE>>
    /\ calls[2] = <<"textured", TRUE>>
    /\ vals[3] = ApplyChain(<<calls[2], calls[1]>>, start)
    /\ vals[3] # start

----------------------------------------------------------------------------
(* C5: each toggle called with value v on any bit-set makes exactly its own *)
(* bit equal to v and leaves the 63 other bits unchanged, with the bit      *)
(* positions of the table.                                                  *)
C5_ToggleFrame ==
    \A i \in Calls :
        IsToggle(calls[i]) =>
            /\ (BitPosition[calls[i][1]] \in vals[i + 1]) <=> calls[i][2]
            /\ \A k \in AllBits \ {BitPosition[calls[i][1]]} :
                  (k \in vals[i + 1]) <=> (k \in vals[i])

C5_Witness ==
    \E i \in Calls :
        /\ calls[i] = <<"full_size", FALSE>>
        /\ 15 \in vals[i]
        /\ 15 \notin vals[i + 1]
        /\ 63 \in vals[i + 1]
        /\ Cardinality(vals[i + 1]) = 63

----------------------------------------------------------------------------
(* C6: with_mac_os_options(f) on a WindowOpenOptions whose platform options *)
(* are absent stores f(MacOSWindowOptions::default()), the same result as   *)
(* setting the platform options to the default first and then calling       *)
(* with_mac_os_options(f); when they are present with value p it stores     *)
(* f(p). In both cases the field is present afterwards.                     *)
(* Checked under SpecMac: opts0 is the value before the call, fArg is f.    *)
C6_LazyDefault ==
    lastOp = "with_mac_os_options" =>
        /\ Len(opts.mac_os_options) = 1
        /\ opts0.mac_os_options = <<>> =>
              /\ opts.mac_os_options = <<ApplyChain(fArg, {0, 1, 2})>>
              /\ opts = with_mac_os_options(
                           [opts0 EXCEPT !.mac_os_options = <<{0, 1, 2}>>], fArg)
        /\ opts0.mac_os_options # <<>> =>
              opts.mac_os_options = <<ApplyChain(fArg, opts0.mac_os_options[1])>>

C6_Witness ==
    /\ lastOp = "with_mac_os_options"
    /\ opts0.mac_os_options = <<>>
    /\ fArg = <<<<"borderless">>, <<"resizable", TRUE>>>>
    /\ opts.mac_os_options = <<{3}>>

----------------------------------------------------------------------------
(* C7: WindowOpenOptions::default() has title "Baseview window", size       *)
(* 800x600, scale SystemScaleFactor and platform options absent, and they   *)
(* stay absent until with_mac_os_options is first called.                   *)
(* Checked under SpecOpts, whose initial value is the default.              *)
C7_Default ==
    /\ lastOp = "none" =>
          opts = [title          |-> "Baseview window",
                  size           |-> [width |-> 800, height |-> 600],
                  scale          |-> <<"SystemScaleFactor">>,
                  mac_os_options |-> <<>>]
    /\ ~macCalled => opts.mac_os_options = <<>>

C7_Witness ==
    /\ lastOp = "none"
    /\ opts.title = "Baseview window"
    /\ opts.size.width = 800
    /\ opts.mac_os_options = <<>>

----------------------------------------------------------------------------
(* C8: each of with_title, with_size, with_scale_policy and                 *)
(* with_mac_os_options changes only its own field; after any sequence of    *)
(* with_title / with_size / with_scale_policy calls on default() each of    *)
(* those fields holds the argument of its most recent call (the title as    *)
(* displayed text) and the platform options are still absent.               *)

\* the text a title argument displays as
DisplayText(d) == IF d = <<"uint", 42>> THEN "42" ELSE d[2]

C8_OwnFieldOnly ==
    /\ lastOp' = "with_title" =>
          /\ opts'.size = opts.size
          /\ opts'.scale = opts.scale
          /\ opts'.mac_os_options = opts.mac_os_options
    /\ lastOp' = "with_size" =>
          /\ opts'.title = opts.title
          /\ opts'.scale = opts.scale
          /\ opts'.mac_os_options = opts.mac_os_options
    /\ lastOp' = "with_scale_policy" =>
          /\ opts'.title = opts.title
          /\ opts'.size = opts.size
          /\ opts'.mac_os_options = opts.mac_os_options
    /\ lastOp' = "with_mac_os_options" =>
          /\ opts'.title = opts.title
          /\ opts'.size = opts.size
          /\ opts'.scale = opts.scale

C8_MostRecentArgument ==
    /\ opts.title = IF recent.with_title = <<>> THEN "Baseview window"
                    ELSE DisplayText(recent.with_title[1])
    /\ opts.size = IF recent.with_size = <<>> THEN [width |-> 800, height |-> 600]
                   ELSE recent.with_size[1]
    /\ opts.scale = IF recent.with_scale_policy = <<>> THEN <<"SystemScaleFactor">>
                    ELSE recent.with_scale_policy[1]
    /\ ~macCalled => opts.mac_os_options = <<>>

C8_Builders == [][C8_OwnFieldOnly]_vars /\ []C8_MostRecentArgument

C8_Witness ==
    /\ lastOp = "with_scale_policy"
    /\ opts = [title          |-> "Test",
               size           |-> [width |-> 400, height |-> 300],
               scale          |-> <<"ScaleFactor", 2>>,
               mac_os_options |-> <<>>]

----------------------------------------------------------------------------
(* C9: after any sequence of toggle and borderless() calls from default(),  *)
(* each named bit equals the argument of the most recent call to its toggle *)
(* made after the last borderless(); a bit whose toggle was not called      *)
(* since then is 0, or its default() value if borderless() was never        *)
(* called. In particular default().borderless().resizable(true) has exactly *)
(* bit 3 set.  Checked under Spec.                                          *)

\* position of the last borderless() in the log, 0 if there is none
LastBorderless ==
    LET B == {i \in Calls : calls[i] = <<"borderless">>}
    IN  IF B = {} THEN 0 ELSE CHOOSE i \in B : \A j \in B : j <= i

\* positions of the calls to toggle t made after the last borderless()
Since(t) == {i \in Calls : i > LastBorderless /\ calls[i][1] = t}

ExpectedBit(t) ==
    IF Since(t) # {}
    THEN calls[CHOOSE i \in Since(t) : \A j \in Since(t) : j <= i][2]
    ELSE IF LastBorderless = 0 THEN BitPosition[t] \in {0, 1, 2} ELSE FALSE

C9_LastCallWins ==
    /\ \A t \in ToggleNames : (BitPosition[t] \in flags) <=> ExpectedBit(t)
    /\ calls = <<<<"borderless">>, <<"resizable", TRUE>>>> => flags = {3}

C9_Witness ==
    /\ calls = <<<<"borderless">>, <<"resizable", TRUE>>>>
    /\ flags = {3}

----------------------------------------------------------------------------
(* C10: in every bit-set reachable from MacOSWindowOptions::default() by    *)
(* toggle and borderless() calls all bits other than the named positions    *)
(* {0, 1, 2, 3, 8, 12, 14, 15} are 0; the same holds for the platform       *)
(* options stored in a WindowOpenOptions by with_mac_os_options calls whose *)
(* closures are built from those methods.                                   *)
(* Checked under SpecOpts, where the closures are method chains applied to  *)
(* the default or to the value an earlier call stored, call after call      *)
(* without a bound on their number.                                         *)
C10_ReservedBitsClear ==
    /\ opts.mac_os_options # <<>> =>
          opts.mac_os_options[1] \subseteq {0, 1, 2, 3, 8, 12, 14, 15}
    /\ style_mask(opts) \subseteq {0, 1, 2, 3, 8, 12, 14, 15}

C10_Witness ==
    /\ opts.mac_os_options = <<{0, 1, 2, 3, 8, 12, 14, 15}>>
    /\ lastOp = "with_mac_os_options"

\* the same for the logged chains on MacOSWindowOptions::default() (Spec)
C10_FlagsReservedBitsClear ==
    \A i \in 1 .. Len(vals) : vals[i] \subseteq {0, 1, 2, 3, 8, 12, 14, 15}

====
